---- MODULE Spec2Model ----
(***************************************************************************)
(* Tiny platformer (src/tiny_platformer_react_canvas_game.jsx): the frame  *)
(* loop, the input handlers, the integrator, the collision resolver and   *)
(* the camera follower.                                                    *)
(*                                                                         *)
(* Numbers.  The program computes in IEEE doubles; the model computes in   *)
(* fixed point.  Time is counted in quanta of 1/60 s, so the frame         *)
(* driver's cap of 1/30 s is 2 quanta.  Velocities are counted in          *)
(* 1/VelScale px/s and positions in 1/PosScale px with PosScale = 60 *     *)
(* VelScale, which makes  x + v * dt  and  v + a * dt  exact.  The only    *)
(* rounded operations are the airborne damping (times 0.999) and the camera's  *)
(* smoothing, both truncated toward zero at the model's resolution.        *)
(***************************************************************************)
EXTENDS Integers, Sequences, FiniteSets, TLC

\* ------------------------------------------------------------------ bounds
\* Spec: every handler, over the first MaxFrames animation frames and at most
\* MaxEvents input events (key, pointer, pause button).
MaxEvents == 4
MaxFrames == 4
\* SpecJump: a jump key, the Jump button and the pause button,
\* at most MaxJumpEvents events, frames without limit.
MaxJumpEvents == 3
\* SpecWalk: a left key and a right key, at most MaxMoveEvents
\* events, frames without limit, every frame at the cap of dt.
MaxMoveEvents == 2
\* The frame loop is not followed once the actor has fallen below this y (px).
MaxFallY == 520
\* The longest pause the clock follows, in quanta.
MaxPause == 2
\* Key events delivered while the camera is followed to rest.
MaxCamEvents == 2
\* Key events delivered in the running-and-jumping specification.
MaxRunEvents == 2

\* faulty variant: an acceleration is not applied
AccelDt_None(a, dt) == a * dt * 0

\* ------------------------------------------------------------------ units
QuantaPerSecond == 2 * 30
VelScale == 3 * 1000
PosScale == QuantaPerSecond * VelScale
Px(n) == n * PosScale
\* a * dt in velocity units, for a in px/s^2 and dt in quanta
AccelDt(a, dt) == (a * VelScale * dt) \div QuantaPerSecond
\* velocity units for n px/s
Vel(n) == n * VelScale

Abs(a) == IF a < 0 THEN -a ELSE a
Min(a, b) == IF a < b THEN a ELSE b
Max(a, b) == IF a > b THEN a ELSE b
\* a * n / d, truncated toward zero
MulDiv(a, n, d) == IF a >= 0 THEN (a * n) \div d ELSE -(((-a) * n) \div d)

\* --------------------------------------------------------- world constants
GRAVITY == 2000
MOVE_ACCEL == 3000
MOVE_MAX == 260
FRICTION == 1800
JUMP_VEL == 720
TILE == 48
PLAYER_W == 28
PLAYER_H == 44
BROAD_PHASE == 400
\* Math.min(1 / 30, ...): the cap on dt, in quanta
DT_CAP == QuantaPerSecond \div 30

Plat(x, y, w, h) == [x |-> Px(x), y |-> Px(y), w |-> Px(w), h |-> Px(h)]

platforms ==
  << Plat(-400, 400, 1600, TILE),
     Plat(200, 320, TILE * 3, TILE \div 2),
     Plat(520, 260, TILE * 2, TILE \div 2),
     Plat(760, 300, TILE * 2, TILE \div 2),
     Plat(1040, 240, TILE * 3, TILE \div 2),
     Plat(1350, 340, (TILE * 5) \div 2, TILE \div 2) >>

W == Px(PLAYER_W)
H == Px(PLAYER_H)

VARIABLES
  player,      \* player.current: x, y, vx, vy, onGround, facing
  camera,      \* camera.current: x, y
  input,       \* inputRef.current: left, right, jump, jumpPressed
  running,     \* the React state `running`
  rafRef,      \* rafRef.current is a request id (TRUE) or null (FALSE)
  scheduled,   \* the browser holds an animation-frame callback for loop
  lastRef,     \* lastRef.current is a timestamp (TRUE) or null (FALSE)
  dtRef,       \* dtRef.current, in quanta
  integ,       \* what the integrator of the last update produced
  held,        \* keys and touch buttons physically held down
  presses,     \* physical released-to-pressed transitions of jump sources
  launches,    \* updates that set vy = -JUMP_VEL
  events,      \* input events delivered so far
  frames,      \* animation frames run so far (counted under a frame limit)
  limits,      \* the limits of the specification: events, frames
  period,      \* time between two animation frames, in quanta
  clock        \* paused: quanta spent in the latest pause; fresh: no frame
               \* has run since the start or the latest resume

vars == << player, camera, input, running, rafRef, scheduled, lastRef, dtRef,
           integ, held, presses, launches, events, frames, limits, period,
           clock >>

\* ------------------------------------------------------ collision resolver
\* Broad-phase: only check platforms near the player
near(p, px, py) ==
  /\ Abs(px - (p.x + p.w \div 2)) < Px(BROAD_PHASE)
  /\ Abs(py - (p.y + p.h \div 2)) < Px(BROAD_PHASE)

nearby(px, py) == SelectSeq(platforms, LAMBDA p : near(p, px, py))

\* Landed on top
landing(r, p, py, dt) ==
  LET prevBottom == py + H
      nextBottom == r.ny + H + r.vy * dt
  IN IF /\ r.nx + W > p.x
        /\ r.nx < p.x + p.w
        /\ prevBottom <= p.y
        /\ nextBottom >= p.y
     THEN [r EXCEPT !.ny = p.y - H, !.vy = 0, !.onGround = TRUE]
     ELSE r

\* Resolve upward bump (head hit)
headBump(r, p, py, dt) ==
  LET prevTop == py
      nextTop == r.ny + r.vy * dt
  IN IF /\ r.nx + W > p.x
        /\ r.nx < p.x + p.w
        /\ prevTop >= p.y + p.h
        /\ nextTop <= p.y + p.h
     THEN [r EXCEPT !.ny = p.y + p.h, !.vy = 0]
     ELSE r

\* Horizontal collisions: nextRight and nextLeft are computed once, before
\* either side is tested
sideBlock(r, p, px, py, dt) ==
  LET nextRight == r.nx + W + r.vx * dt
      nextLeft == r.nx + r.vx * dt
      vertOverlap == py + H > p.y /\ py < p.y + p.h
      hitLeft == vertOverlap /\ px + W <= p.x /\ nextRight > p.x
      hitRight == vertOverlap /\ px >= p.x + p.w /\ nextLeft < p.x + p.w
      r1 == IF hitLeft THEN [r EXCEPT !.nx = p.x - W, !.vx = 0] ELSE r
  IN IF hitRight THEN [r1 EXCEPT !.nx = p.x + p.w, !.vx = 0] ELSE r1

\* The body of the loop over the platforms, for one platform
resolveOne(r, p, px, py, dt) ==
  sideBlock(headBump(landing(r, p, py, dt), p, py, dt), p, px, py, dt)

RECURSIVE resolveOver(_, _, _, _, _, _)
resolveOver(plats, i, r, px, py, dt) ==
  IF i > Len(plats) THEN r
  ELSE resolveOver(plats, i + 1, resolveOne(r, plats[i], px, py, dt), px, py, dt)

\* faulty variant: the ground flag starts from the previous tick's value
resolveStart_CarryGround(px, py, vx, vy) ==
  [nx |-> px, ny |-> py, vx |-> vx, vy |-> vy, onGround |-> player.onGround]

resolveStart(px, py, vx, vy) ==
  [nx |-> px, ny |-> py, vx |-> vx, vy |-> vy, onGround |-> FALSE]

\* resolveCollisions reads dtRef.current, which loop has set to update's dt
resolveCollisions(px, py, vx, vy, dt) ==
  resolveOver(nearby(px, py), 1, resolveStart(px, py, vx, vy), px, py, dt)

\* -------------------------------------------------------------- integrator
\* faulty variant: the friction is applied without the floor at zero
horizontal_NoFloor(p, in, dt) ==
  IF in.left /\ ~in.right THEN p.vx - AccelDt(MOVE_ACCEL, dt)
  ELSE IF in.right /\ ~in.left THEN p.vx + AccelDt(MOVE_ACCEL, dt)
  ELSE IF p.onGround
       THEN IF p.vx > 0 THEN p.vx - AccelDt(FRICTION, dt)
            ELSE IF p.vx < 0 THEN p.vx + AccelDt(FRICTION, dt)
            ELSE p.vx
       ELSE MulDiv(p.vx, 999, 1000)

\* Horizontal movement
horizontal(p, in, dt) ==
  IF in.left /\ ~in.right THEN p.vx - AccelDt(MOVE_ACCEL, dt)
  ELSE IF in.right /\ ~in.left THEN p.vx + AccelDt(MOVE_ACCEL, dt)
  ELSE IF p.onGround
       THEN IF p.vx > 0 THEN Max(0, p.vx - AccelDt(FRICTION, dt))
            ELSE IF p.vx < 0 THEN Min(0, p.vx + AccelDt(FRICTION, dt))
            ELSE p.vx
       ELSE MulDiv(p.vx, 999, 1000)

facingOf(p, in) ==
  IF in.left /\ ~in.right THEN -1
  ELSE IF in.right /\ ~in.left THEN 1
  ELSE p.facing

\* faulty variant: the clamp is left out
clamp_Missing(vx) == vx

\* Clamp horizontal speed
clamp(vx) == Max(-Vel(MOVE_MAX), Min(Vel(MOVE_MAX), vx))

\* faulty variant: the jump does not ask for ground contact
jumpFires_Airborne(p, in) == in.jumpPressed

\* Jump (edge-triggered)
jumpFires(p, in) == in.jumpPressed /\ p.onGround

\* update, from its first line to the tentative position
integrate(p, in, dt) ==
  LET vx == clamp(horizontal(p, in, dt))
      fires == jumpFires(p, in)
      vy == IF fires THEN -Vel(JUMP_VEL) ELSE p.vy + AccelDt(GRAVITY, dt)
  IN [vx |-> vx, vy |-> vy,
      onGround |-> IF fires THEN FALSE ELSE p.onGround,
      facing |-> facingOf(p, in),
      launched |-> fires,
      nx |-> p.x + vx * dt,
      ny |-> p.y + vy * dt]

\* faulty variant: the edge is cleared only inside the branch that launches
consume_OnlyWhenFired(in) ==
  IF in.jumpPressed /\ player.onGround
  THEN [in EXCEPT !.jumpPressed = FALSE]
  ELSE in

\* input.jumpPressed = false  (consume edge trigger)
consume(in) == [in EXCEPT !.jumpPressed = FALSE]

\* |a - b| > 0.01 px
Differs(a, b) == Abs(a - b) > PosScale \div 100

\* update, from the call of resolveCollisions to the integrated positions
resolved(p, g, dt) ==
  LET res == resolveCollisions(p.x, p.y, g.vx, g.vy, dt)
      y == IF ~res.onGround /\ Differs(g.ny, res.ny) THEN g.ny ELSE res.ny
      x == IF Differs(g.nx, res.nx) THEN g.nx ELSE res.nx
  IN [x |-> x, y |-> y, vx |-> res.vx, vy |-> res.vy,
      onGround |-> res.onGround, facing |-> g.facing]

\* faulty variant: the smoothing step is seven times too long
follow_Overshoot(cam, p, dt) ==
  LET targetX == p.x + W \div 2 - Px(320)
  IN [x |-> cam.x + 7 * MulDiv(targetX - cam.x,
                               Min(QuantaPerSecond, 10 * dt), QuantaPerSecond),
      y |-> 0]

\* Update camera to follow player (smoothly)
follow(cam, p, dt) ==
  LET targetX == p.x + W \div 2 - Px(320)
  IN [x |-> cam.x + MulDiv(targetX - cam.x,
                           Min(QuantaPerSecond, 10 * dt), QuantaPerSecond),
      y |-> 0]

update(dt) ==
  LET g == integrate(player, input, dt)
      q == resolved(player, g, dt)
  IN /\ player' = q
     /\ input' = consume(input)
     /\ camera' = follow(camera, q, dt)
     /\ integ' = [vx |-> g.vx, vy |-> g.vy, onGround |-> g.onGround,
                  launched |-> g.launched, edge |-> input.jumpPressed]
     /\ launches' = IF g.launched THEN launches + 1 ELSE launches

\* ------------------------------------------------------------ input events
\* the key lists of onKey
LeftKeys == {"arrowleft", "a"}
RightKeys == {"arrowright", "d"}
JumpKeys == {"arrowup", "w", " "}
\* the keys the environment uses: one per list
MoveKeysUsed == {"a", "d"}
JumpKeysUsed == {"w"}
\* the touch buttons that call setInput
Buttons == {"left", "right", "jump"}
\* the sources of a jump press: the jump keys and the Jump button
JumpSources == JumpKeys \cup {"jump"}

\* faulty variant: the release of jump also drops the pending edge
jumpInput_ReleaseDropsEdge(in, down) ==
  IF down
  THEN [in EXCEPT !.jumpPressed = IF ~in.jump THEN TRUE ELSE in.jumpPressed,
                  !.jump = TRUE]
  ELSE [in EXCEPT !.jump = FALSE, !.jumpPressed = FALSE]

\* the jump branch shared by onKey and setInput
jumpInput(in, down) ==
  IF down
  THEN [in EXCEPT !.jumpPressed = IF ~in.jump THEN TRUE ELSE in.jumpPressed,
                  !.jump = TRUE]
  ELSE [in EXCEPT !.jump = FALSE]

onKey(in, k, down) ==
  LET in1 == IF k \in LeftKeys THEN [in EXCEPT !.left = down] ELSE in
      in2 == IF k \in RightKeys THEN [in1 EXCEPT !.right = down] ELSE in1
  IN IF k \in JumpKeys THEN jumpInput(in2, down) ELSE in2

setInput(in, key, down) ==
  IF key = "jump" THEN jumpInput(in, down)
  ELSE IF key = "left" THEN [in EXCEPT !.left = down]
  ELSE [in EXCEPT !.right = down]

Deliver == /\ events < limits.events
           /\ events' = events + 1

Sim == << player, camera, running, rafRef, scheduled, lastRef, dtRef, integ,
          launches, frames, limits, period, clock >>

\* a physical press of a jump source counts once
pressed(src) == IF src \in JumpSources THEN presses + 1 ELSE presses

\* keydown of a key that is up: a physical press
KeyPress(k) ==
  /\ Deliver
  /\ k \notin held
  /\ input' = onKey(input, k, TRUE)
  /\ held' = held \cup {k}
  /\ presses' = pressed(k)
  /\ UNCHANGED Sim

\* keydown repeated by the keyboard while the key stays down
KeyRepeat(k) ==
  /\ Deliver
  /\ k \in held
  /\ input' = onKey(input, k, TRUE)
  /\ UNCHANGED << Sim, held, presses >>

\* keyup of a key that is down
KeyUp(k) ==
  /\ Deliver
  /\ k \in held
  /\ input' = onKey(input, k, FALSE)
  /\ held' = held \ {k}
  /\ UNCHANGED << Sim, presses >>

\* onPointerDown of a touch button: a physical press
ButtonDown(b) ==
  /\ Deliver
  /\ b \notin held
  /\ input' = setInput(input, b, TRUE)
  /\ held' = held \cup {b}
  /\ presses' = pressed(b)
  /\ UNCHANGED Sim

\* onPointerUp, onPointerCancel: the pointer that went down on the button
ButtonUp(b) ==
  /\ Deliver
  /\ b \in held
  /\ input' = setInput(input, b, FALSE)
  /\ held' = held \ {b}
  /\ UNCHANGED << Sim, presses >>

\* onPointerLeave: fires whenever a pointer leaves the button, pressed or
\* only hovering
ButtonLeave(b) ==
  /\ Deliver
  /\ input' = setInput(input, b, FALSE)
  /\ held' = held \ {b}
  /\ UNCHANGED << Sim, presses >>

\* ------------------------------------------------------------- frame loop
\* faulty variant: the cleanup forgets the handle without cancelling the frame
cleanup_NoCancel == [scheduled |-> scheduled, rafRef |-> FALSE,
                     lastRef |-> FALSE]

\* faulty variant: the cleanup keeps the last timestamp
cleanup_KeepsLast == [scheduled |-> IF rafRef THEN FALSE ELSE scheduled,
                      rafRef |-> FALSE, lastRef |-> lastRef]

\* the effect's cleanup: cancel the pending frame, forget the last timestamp
cleanup == [scheduled |-> IF rafRef THEN FALSE ELSE scheduled,
            rafRef |-> FALSE, lastRef |-> FALSE]

\* the effect's body when running: request the first frame
effect == [scheduled |-> TRUE, rafRef |-> TRUE, lastRef |-> lastRef]

\* onClick of the Pause / Resume button: setRunning(r => !r), then React runs
\* the cleanup of the old effect and, when running again, the effect
TogglePause ==
  /\ Deliver
  /\ running' = ~running
  /\ LET e == IF running THEN cleanup ELSE effect
     IN /\ scheduled' = e.scheduled
        /\ rafRef' = e.rafRef
        /\ lastRef' = e.lastRef
  /\ clock' = IF running THEN [clock EXCEPT !.paused = 0]
                         ELSE [clock EXCEPT !.fresh = TRUE]
  /\ UNCHANGED << player, camera, input, dtRef, integ, held, presses,
                  launches, frames, limits, period >>

\* time passes while the loop is paused
Wait ==
  /\ ~running
  /\ clock.paused < MaxPause
  /\ clock' = [clock EXCEPT !.paused = @ + 1]
  /\ UNCHANGED << player, camera, input, running, rafRef, scheduled, lastRef,
                  dtRef, integ, held, presses, launches, events, frames,
                  limits, period >>

\* The display's frame periods the model follows: 60 Hz, and 20 Hz, which is
\* slower than the cap
Periods == {1, DT_CAP + 1}

\* (t - lastRef.current) / 1000 in quanta; 0 when lastRef.current was null.
\* A timestamp kept over a pause is older by the length of the pause.
elapsed ==
  IF lastRef THEN period + (IF clock.fresh THEN clock.paused ELSE 0) ELSE 0

frameDt == Min(DT_CAP, elapsed)

NoLimit == 0 - 1

\* loop(t): one animation frame
Frame ==
  /\ scheduled
  /\ player.y < Px(MaxFallY)
  /\ IF limits.frames = NoLimit
     THEN frames' = frames
     ELSE frames < limits.frames /\ frames' = frames + 1
  /\ dtRef' = frameDt
  /\ lastRef' = TRUE
  /\ update(frameDt)
  /\ rafRef' = TRUE
  /\ scheduled' = TRUE
  /\ clock' = [clock EXCEPT !.fresh = FALSE]
  /\ UNCHANGED << running, held, presses, events, limits, period >>

\* the state after construction and the first run of the effects
Mounted ==
  /\ player = [x |-> Px(100), y |-> Px(200), vx |-> 0, vy |-> 0,
               onGround |-> FALSE, facing |-> 1]
  /\ camera = [x |-> 0, y |-> 0]
  /\ input = [left |-> FALSE, right |-> FALSE, jump |-> FALSE,
              jumpPressed |-> FALSE]
  /\ running = TRUE
  /\ rafRef = TRUE
  /\ scheduled = TRUE
  /\ lastRef = FALSE
  /\ dtRef = 0
  /\ integ = [vx |-> 0, vy |-> 0, onGround |-> FALSE, launched |-> FALSE,
              edge |-> FALSE]
  /\ held = {}
  /\ presses = 0
  /\ launches = 0
  /\ events = 0
  /\ frames = 0
  /\ period \in Periods
  /\ clock = [paused |-> 0, fresh |-> TRUE]

\* Every handler, over the first frames
Init == Mounted /\ limits = [events |-> MaxEvents, frames |-> MaxFrames]
Next ==
  \/ Frame
  \/ \E k \in MoveKeysUsed \cup JumpKeysUsed : KeyPress(k)
  \/ \E k \in MoveKeysUsed \cup JumpKeysUsed : KeyRepeat(k)
  \/ \E k \in MoveKeysUsed \cup JumpKeysUsed : KeyUp(k)
  \/ \E b \in Buttons : ButtonDown(b)
  \/ \E b \in Buttons : ButtonUp(b)
  \/ \E b \in Buttons : ButtonLeave(b)
  \/ TogglePause
  \/ Wait
Spec == Init /\ [][Next]_vars

\* Jumping in place with a key and the Jump button, pausing and resuming
InitJump == Mounted /\ limits = [events |-> MaxJumpEvents, frames |-> NoLimit]
NextJump ==
  \/ Frame
  \/ \E k \in JumpKeysUsed : KeyPress(k)
  \/ \E k \in JumpKeysUsed : KeyRepeat(k)
  \/ \E k \in JumpKeysUsed : KeyUp(k)
  \/ ButtonDown("jump")
  \/ ButtonUp("jump")
  \/ ButtonLeave("jump")
  \/ TogglePause
SpecJump == InitJump /\ [][NextJump]_vars

\* Walking and falling with the left and right keys, on the slow display
InitWalk ==
  /\ Mounted
  /\ period = DT_CAP + 1
  /\ limits = [events |-> MaxMoveEvents, frames |-> NoLimit]
NextWalk ==
  \/ Frame
  \/ \E k \in MoveKeysUsed : KeyPress(k)
  \/ \E k \in MoveKeysUsed : KeyUp(k)
SpecWalk == InitWalk /\ [][NextWalk]_vars

\* The running-and-jumping specification: the right key and the jump key,
\* at the longer frame period, so that the actor can reach the sides and the
\* undersides of the floating platforms.
RunKeysUsed == {"d", "w"}
InitRun ==
  /\ Mounted
  /\ period = DT_CAP + 1
  /\ limits = [events |-> MaxRunEvents, frames |-> NoLimit]
NextRun ==
  \/ Frame
  \/ \E k \in RunKeysUsed : KeyPress(k)
  \/ \E k \in RunKeysUsed : KeyUp(k)
SpecRun == InitRun /\ [][NextRun]_vars

\* The camera specification: presses of the move keys only, at either frame
\* period.
InitCam ==
  /\ Mounted
  /\ limits = [events |-> MaxCamEvents, frames |-> NoLimit]
NextCam ==
  \/ Frame
  \/ \E k \in MoveKeysUsed : KeyPress(k)
SpecCam == InitCam /\ [][NextCam]_vars

\* ------------------------------------------------------------------ claims
Platforms == {platforms[i] : i \in 1 .. Len(platforms)}

\* the actor's horizontal extent overlaps the platform's
OverX(p, pl) == p.x + W > pl.x /\ p.x < pl.x + pl.w

\* the actor rests on top of the platform
RestsOn(p, pl) == p.y + H = pl.y /\ OverX(p, pl) /\ p.vy = 0 /\ p.onGround

NoInput == ~input.left /\ ~input.right /\ ~input.jump /\ ~input.jumpPressed

\* C1: an actor resting on top of any platform, with no input, ends every
\* tick at the same y with vy = 0 and onGround = true, at every x along the
\* platform.
C1_RestingStays ==
  [][(Frame /\ NoInput /\ \E pl \in Platforms : RestsOn(player, pl))
       => (player'.y = player.y /\ player'.vy = 0 /\ player'.onGround)]_vars

\* 0.01 px
Epsilon == PosScale \div 100

\* C2: no tunneling: in a tick with 0 < dt <= 1/30, an actor whose bottom
\* is at or above a platform's top and whose horizontal extent overlaps the
\* platform does not end the tick with its bottom below that top (beyond a
\* small epsilon).
C2_NoTunneling ==
  [][(Frame /\ frameDt > 0)
       => \A pl \in Platforms :
            (player.y + H <= pl.y /\ OverX(player, pl))
              => player'.y + H <= pl.y + Epsilon]_vars

\* C3: the number of launches never exceeds the number of physical
\* released-to-pressed transitions of the jump sources.
C3_OneLaunchPerPress == launches <= presses

\* C4: a jump edge (input.jump going from false to true) sets jumpPressed,
\* no handler other than the tick clears it, and the tick's jump check reads
\* it.
C4_LatchUntilConsumed ==
  [][/\ (~input.jump /\ input'.jump) => input'.jumpPressed
     /\ (input.jumpPressed /\ ~Frame) => input'.jumpPressed
     /\ Frame => (integ'.edge = input.jumpPressed)]_vars

\* a tick after a resume read an edge whose key had been released before
C4_Witness ==
  integ.edge /\ ~input.jump /\ held = {} /\ dtRef = 0 /\ frames >= 2

\* C5: jumpPressed is false at the end of every update, whether or not the
\* jump fired, and only an update that starts with jumpPressed launches.
C5_EdgeConsumed ==
  [][Frame => /\ ~input'.jumpPressed
              /\ launches' # launches => input.jumpPressed]_vars

\* a press made while airborne: the key is still down two ticks after the
\* landing and nothing was launched
C5_Witness ==
  /\ player.onGround /\ integ.onGround
  /\ held = {"w"} /\ events = 1 /\ launches = 0

\* C6: the integrator sets vy = -JUMP_VEL and clears onGround if and only
\* if jumpPressed and onGround are true; otherwise vy is the previous vy
\* plus GRAVITY * dt and onGround is untouched.
C6_JumpIffEdgeOnGround ==
  [][Frame =>
       IF input.jumpPressed /\ player.onGround
       THEN integ'.vy = -Vel(JUMP_VEL) /\ ~integ'.onGround /\ integ'.launched
       ELSE /\ integ'.vy = player.vy + AccelDt(GRAVITY, frameDt)
            /\ integ'.onGround = player.onGround
            /\ ~integ'.launched]_vars

\* a launch from the ground, and later an edge consumed in the air
C6_Witness ==
  launches = 1 /\ integ.edge /\ ~integ.launched /\ ~player.onGround

\* C7: |vx| <= MOVE_MAX after the integrator step and at the end of every
\* tick.
C7_SpeedClamp ==
  Abs(integ.vx) <= Vel(MOVE_MAX) /\ Abs(player.vx) <= Vel(MOVE_MAX)

\* the clamp cuts the speed of an actor that keeps accelerating on the ground
C7_Witness ==
  /\ Abs(integ.vx) = Vel(MOVE_MAX)
  /\ Abs(player.vx) = Vel(MOVE_MAX)
  /\ player.onGround /\ integ.onGround
  /\ input.left # input.right

\* C8: resolving against the platforms that pass the broad-phase filter
\* gives the same result as resolving against all the platforms of the
\* level, for the pose, velocity and dt of the next update.
C8_BroadPhaseIsOptimization ==
  LET g == integrate(player, input, frameDt)
  IN resolveCollisions(player.x, player.y, g.vx, g.vy, frameDt)
       = resolveOver(platforms, 1,
                     resolveStart(player.x, player.y, g.vx, g.vy),
                     player.x, player.y, frameDt)

\* C9: an update with dt = 0 leaves x, y, vx and vy unchanged.
C9_ZeroDtNoOp ==
  [][(Frame /\ frameDt = 0)
       => /\ player'.x = player.x /\ player'.y = player.y
          /\ player'.vx = player.vx /\ player'.vy = player.vy]_vars

\* C10: while paused no update runs, the pose and the camera do not change
\* whatever events arrive, and no animation-frame callback is left pending.
C10_PausedIsFrozen ==
  [][/\ ~running => /\ player' = player /\ camera' = camera
                    /\ integ' = integ /\ dtRef' = dtRef /\ frames' = frames
     /\ ~running' => ~scheduled']_vars

\* paused after some frames, with keys pressed since the pause
C10_Witness ==
  /\ ~running /\ ~scheduled /\ frames >= 2
  /\ input.left /\ input.jumpPressed /\ events = 3

\* C11: every dt handed to update lies in [0, 1/30], and the first tick
\* after the start or after a resume gets dt = 0 however long the pause
\* lasted.
C11_DtBoundedAndZeroOnResume ==
  [][Frame => /\ dtRef' \in 0 .. DT_CAP
              /\ clock.fresh => dtRef' = 0]_vars

\* the first tick after a pause of the longest length, with dt = 0; the
\* frames before the pause ran with dt > 0
C11_Witness ==
  /\ running /\ ~clock.fresh /\ clock.paused = MaxPause
  /\ dtRef = 0 /\ frames >= 3 /\ player.vy > 0

\* targetX - camera.x for an actor p and a camera cam
CamGap(p, cam) == p.x + W \div 2 - Px(320) - cam.x

\* C12: with the actor stationary and dt in (0, 1/30], a tick never
\* increases |targetX - camera.x| and camera.x never crosses targetX;
\* camera.y is 0 after every tick; and the distance falls below epsilon:
\* every such tick closes at least the fraction 10 * dt of it.
C12_CameraConverges ==
  [][Frame => /\ camera'.y = 0
              /\ (dtRef' > 0 /\ player'.x = player.x) =>
                   LET d == CamGap(player, camera)
                       e == CamGap(player', camera')
                   IN /\ Abs(e) <= Abs(d)
                      /\ d >= 0 => e >= 0
                      /\ d <= 0 => e <= 0
                      /\ Abs(e) <= Abs(d) - (Abs(d) * 10 * dtRef')
                                              \div QuantaPerSecond]_vars

\* the actor has walked, has come to rest elsewhere with both keys held,
\* and the camera has closed in on it from far away
C12_Witness ==
  /\ player.onGround /\ player.vx = 0 /\ input.left /\ input.right
  /\ player.x # Px(100)
  /\ Abs(CamGap(player, camera)) < Epsilon
  /\ camera.x # 0 /\ camera.y = 0 /\ dtRef > 0

\* the tick's resolution zeroed vy: a landing, or a head bump
ZeroedByCollision == player'.onGround \/ player'.vy # integ'.vy

\* C13 as claimed: starting airborne with no input, vy at the end of each
\* tick is strictly greater than at the end of the previous tick, until a
\* tick in which a collision zeroes vy.
C13_GravityStrict ==
  [][(Frame /\ ~player.onGround /\ NoInput /\ ~ZeroedByCollision)
       => player'.vy > player.vy]_vars

\* C13: starting airborne with no input, every tick with dt > 0 ends with
\* vy strictly greater than before, until a tick in which a collision
\* zeroes vy.
C13_GravityStrictPositiveDt ==
  [][(Frame /\ ~player.onGround /\ NoInput /\ ~ZeroedByCollision
       /\ dtRef' > 0)
       => player'.vy > player.vy]_vars

\* an airborne tick with dt > 0 and no input, falling back from a jump
C13_Witness ==
  /\ ~player.onGround /\ NoInput /\ launches >= 1
  /\ dtRef > 0
  /\ player.vy = integ.vy /\ player.vy > Vel(50)

\* the tentative position of the tick that has just run
TentX == player.x + integ'.vx * dtRef'
TentY == player.y + integ'.vy * dtRef'

\* the actor's vertical extent before the tick overlaps platform pl
VertOverlap(pl) == player.y + H > pl.y /\ player.y < pl.y + pl.h

\* the floating platforms: all but the ground
Floating == {platforms[i] : i \in 2 .. Len(platforms)}

\* C14: a tick in which the actor's vertical extent overlaps a platform, its
\* right edge is at or left of the platform's left edge and its tentative
\* right edge passes that edge ends with x = p.x - w and vx = 0; and
\* symmetrically at the platform's right edge with x = p.x + p.w, vx = 0.
C14_SideBlockSnaps ==
  [][Frame => \A pl \in Floating :
       /\ (VertOverlap(pl) /\ player.x + W <= pl.x /\ TentX + W > pl.x)
            => (player'.x = pl.x - W /\ player'.vx = 0)
       /\ (VertOverlap(pl) /\ player.x >= pl.x + pl.w
             /\ TentX < pl.x + pl.w)
            => (player'.x = pl.x + pl.w /\ player'.vx = 0)]_vars

\* C15: a tick in which the actor's top is at or below a platform's bottom,
\* its tentative top is at or above it and the horizontal extents overlap
\* ends with y = p.y + p.h and vy = 0, and with onGround not set.
C15_HeadBumpSnaps ==
  [][Frame => \A pl \in Floating :
       (/\ player.y >= pl.y + pl.h
        /\ TentY <= pl.y + pl.h
        /\ OverX(player, pl))
         => /\ player'.y = pl.y + pl.h
            /\ player'.vy = 0
            /\ ~player'.onGround]_vars

\* the landing test of this tick's resolution passes for platform pl
LandsOn(pl) ==
  /\ OverX(player, pl)
  /\ player.y + H <= pl.y
  /\ TentY + H >= pl.y

\* C16: at the end of every tick onGround is true only if a landing fired
\* in that tick's resolution, and whenever onGround is true, vy = 0 and the
\* actor's bottom is the top of some platform.
C16_GroundFlag ==
  [][Frame => (player'.onGround =>
       /\ player'.vy = 0
       /\ \E pl \in Platforms : LandsOn(pl) /\ player'.y + H = pl.y)]_vars

\* the actor has landed on a floating platform
C16_Witness ==
  /\ player.onGround /\ player.vy = 0
  /\ \E pl \in Floating : player.y + H = pl.y

\* the head-bump test of this tick's resolution passes for platform pl
Bumps(pl) ==
  /\ OverX(player, pl)
  /\ player.y >= pl.y + pl.h
  /\ TentY <= pl.y + pl.h

\* one of the two side tests of this tick's resolution passes for pl
SideHits(pl) ==
  /\ VertOverlap(pl)
  /\ \/ player.x + W <= pl.x /\ TentX + W > pl.x
     \/ player.x >= pl.x + pl.w /\ TentX < pl.x + pl.w

\* C17: in every tick where no landing and no head bump fires the final y
\* is previous y + vy * dt, and in every tick where no side block fires the
\* final x is previous x + vx * dt, however small the displacement.
C17_PassThrough ==
  [][Frame =>
       /\ (\A pl \in Platforms : ~LandsOn(pl) /\ ~Bumps(pl))
            => player'.y = TentY
       /\ (\A pl \in Platforms : ~SideHits(pl))
            => player'.x = TentX]_vars

\* neither or both of left and right are held
Idle == input.left <=> input.right

\* C18: on the ground with neither or both of left and right held, each
\* tick moves vx toward 0 by at most FRICTION * dt without changing its
\* sign; a tick with dt > 0 takes the whole FRICTION * dt off |vx| or ends
\* with vx = 0, so vx reaches exactly 0; and vx = 0 stays 0.
C18_FrictionStops ==
  [][(Frame /\ player.onGround /\ Idle) =>
       LET v == player.vx
           u == player'.vx
           step == AccelDt(FRICTION, dtRef')
       IN /\ v > 0 => (0 <= u /\ u <= v)
          /\ v < 0 => (v <= u /\ u <= 0)
          /\ v = 0 => u = 0
          /\ Abs(v - u) <= step
          /\ dtRef' > 0 => (u = 0 \/ Abs(u) = Abs(v) - step)]_vars

\* the actor has walked away and friction has brought it to rest with
\* both keys held
C18_Witness ==
  /\ player.onGround /\ player.vx = 0 /\ dtRef > 0
  /\ input.left /\ input.right
  /\ player.x # Px(100)

\* the actor's vertical extent after the tick overlaps platform pl
VertOverlapAfter(pl) == player'.y + H > pl.y /\ player'.y < pl.y + pl.h

\* C19: an actor entirely to the left of a platform, whose vertical extent
\* overlaps the platform before and after the tick, does not end the tick
\* with its right edge beyond the platform's left edge; and symmetrically
\* from the right.
C19_WallsHold ==
  [][Frame => \A pl \in Floating :
       (VertOverlap(pl) /\ VertOverlapAfter(pl)) =>
          /\ player.x + W <= pl.x => player'.x + W <= pl.x
          /\ player.x >= pl.x + pl.w => player'.x >= pl.x + pl.w]_vars

\* C20: a tick that starts with jumpPressed set and the actor resting on a
\* platform with onGround true ends with vy = -JUMP_VEL and onGround false,
\* for every dt the frame loop supplies, dt = 0 included.
C20_JumpSurvivesTick ==
  [][(Frame /\ input.jumpPressed
        /\ \E pl \in Platforms : RestsOn(player, pl))
       => (player'.vy = -Vel(JUMP_VEL) /\ ~player'.onGround)]_vars

====
